---- MODULE Spec2Model ----
(***************************************************************************)
(* Signaling-and-connection-management layer of the WebRTC meeting client: *)
(* SignalingService (channel adapter), WebRTCService (peer connection      *)
(* registry), the OptimizedMeeting component's handlers, and the helpers   *)
(* of utils/signalingOptimizer (quality monitor, reconnection policy,      *)
(* fallback negotiation).                                                  *)
(***************************************************************************)
EXTENDS Integers, Sequences, FiniteSets, TLC

VARIABLES
    callbacks,          \* SignalingService.on* callbacks that are set (names)
    socket,             \* SignalingService.socket: "null" | "connecting" | "open"
    left,               \* leaveMeeting has run
    peerConnections,    \* WebRTCService.peerConnections: Map entries <<peerId, handle>>
    handles,            \* every RTCPeerConnection ever constructed, by identity 1..Len,
                        \* each with the primitives issued on it and not yet settled
    pendingCandidates,  \* SignalingService.pendingCandidates: peerId -> list
    sent,               \* envelopes handed to socket.send, in order
    last,               \* the last received message and what it was routed to
    nrecv,              \* number of messages received so far
    rc,                 \* a ConnectionStateManager and the connection it observes
    qm,                 \* a ConnectionQualityMonitor and its sampling timer
    qualityMonitors,    \* WebRTCService.qualityMonitors: Map entries <<peerId, monitor>>
    stateManagers,      \* WebRTCService.stateManagers: Map entries <<peerId, manager>>
    monitors,           \* every ConnectionQualityMonitor constructed by the service
    managers,           \* every ConnectionStateManager constructed by the service
    call,               \* the last call made on a service by its caller, and its outcome
    ice,                \* an optimizeIceCandidates call: its argument and its result
    media               \* the component's media state: participants, local and
                        \* screen streams, the toggles and acquisitions under way

\* the service-side state that the component's handlers reach only through
\* closeConnection / closeAllConnections
aux == <<qualityMonitors, stateManagers, monitors, managers, call, ice>>

\* the same, with the component's media state
auxMedia == <<aux, media>>

\* the fields of WebRTCService and the objects they refer to
registryVars == <<peerConnections, handles, qualityMonitors, stateManagers,
                  monitors, managers>>

vars == <<callbacks, socket, left, peerConnections, handles, pendingCandidates,
          sent, last, nrecv, rc, qm, qualityMonitors, stateManagers, monitors,
          managers, call, ice, media>>

----------------------------------------------------------------------------
(* Bounds and value sets *)

MaxMsgs == 3
MaxStateEvents == 5
MaxSamples == 2
MaxTimers == 2

Peers == {"p1", "p2"}
username == "me"
Names == {username, "other"}
Cands == {"c1", "c2"}
NoCand == "none"

----------------------------------------------------------------------------
(* JavaScript Map, kept as its set of entries <<key, value>> *)

MapHas(m, k) == \E e \in m : e[1] = k

MapGet(m, k) == IF MapHas(m, k) THEN (CHOOSE e \in m : e[1] = k)[2] ELSE 0

\* (a set that appends without replacing, for comparison with MapSet)
MapSetKeepOld(m, k, v) == m \cup {<<k, v>>}

MapSet(m, k, v) == {e \in m : e[1] # k} \cup {<<k, v>>}

MapDelete(m, k) == {e \in m : e[1] # k}

----------------------------------------------------------------------------
(* RTCPeerConnection as constructed by createPeerConnection *)

EmptyOptions ==
    [offerToReceiveAudio |-> "unset", offerToReceiveVideo |-> "unset",
     voiceActivityDetection |-> "unset"]

NoDesc == [kind |-> "none", attempt |-> 0, opts |-> EmptyOptions]

NewHandle(p) ==
    [peer |-> p, closed |-> FALSE, signalingState |-> "stable",
     localDescription |-> NoDesc, remoteDescription |-> NoDesc,
     tracks |-> << >>, candidates |-> << >>, ops |-> << >>,
     attempts |-> 0, outcomes |-> << >>, offerResult |-> "none",
     returned |-> NoDesc]

\* nothing passed to onQualityChange yet
NoEmission ==
    [quality |-> "none", bitrate |-> 0, packetsLost |-> 0, totalPackets |-> 0,
     hasDelta |-> FALSE, deltaBytes |-> 0, deltaMs |-> 0]

\* no call made yet
NoCall == [op |-> "none", peer |-> "none", error |-> "none", logged |-> "none",
           n |-> 0]

\* no MediaStream (null)
NoStream == [kind |-> "none", tracks |-> << >>]

\* what a handler of the component closes over when it is created: the
\* participants, localStream and cameraEnabled of that render
NoClosure ==
    [participants |-> << >>, localStream |-> NoStream, cameraEnabled |-> FALSE]

\* the useState / useRef initial values of the component, no acquisition
\* under way and no screen stream live (`screens`: the live screen streams,
\* each with the closure of its onended handler); `clicks` counts the toggle
\* clicks, `outcome` is how the last
\* awaited acquisition settled, `alert` and `uncaught` the last message shown
\* by a catch block and the last error no handler caught
NoMedia ==
    [participants |-> << >>, localStream |-> NoStream, screenStream |-> NoStream,
     micEnabled |-> FALSE, cameraEnabled |-> FALSE, screenEnabled |-> FALSE,
     acquiring |-> << >>, screens |-> << >>, clicks |-> 0,
     outcome |-> "none", alert |-> "none", uncaught |-> "none"]

\* optimizeIceCandidates not called yet
NoIce == [candidates |-> << >>, result |-> << >>, called |-> FALSE]

\* the state after the module singletons are constructed, up to the argument
\* a caller is about to pass to optimizeIceCandidates
InitServices ==
    /\ callbacks = {}
    /\ socket = "null"
    /\ left = FALSE
    /\ peerConnections = {}
    /\ handles = << >>
    /\ pendingCandidates = [p \in Peers |-> << >>]
    /\ sent = << >>
    /\ last = [type |-> "none", from |-> "none", to |-> "none", cand |-> NoCand,
               dispatched |-> {}, inner |-> "none", error |-> "none",
               hadEntry |-> FALSE]
    /\ nrecv = 0
    /\ rc = [monitoring |-> FALSE, connectionState |-> "new",
             iceConnectionState |-> "new", reconnectAttempts |-> 0,
             timers |-> << >>, restarts |-> 0, notified |-> "none",
             events |-> 0, disconnections |-> 0, scheduled |-> << >>,
             closed |-> FALSE]
    /\ qm = [statsInterval |-> FALSE, timers |-> 0, lastBitrate |-> 0,
             lastTimestamp |-> 0,
             inflight |-> 0, samples |-> 0, emitted |-> NoEmission]
    /\ qualityMonitors = {}
    /\ stateManagers = {}
    /\ monitors = << >>
    /\ managers = << >>
    /\ call = NoCall
    /\ media = NoMedia

Init == InitServices /\ ice = NoIce

----------------------------------------------------------------------------
(* WebRTCService: the registry.  A registry value holds the three Maps of   *)
(* the service and the objects their entries refer to: the                 *)
(* RTCPeerConnection handles and the quality monitors.                     *)

Registry ==
    [pcs |-> peerConnections, hs |-> handles, qms |-> qualityMonitors,
     sms |-> stateManagers, mons |-> monitors]

\* (a create that registers the peer's previous handle again when it has
\*  one, for comparison with createPeerConnection)
createPeerConnectionReuse(R, p) ==
    LET mine == {h \in 1..Len(R.hs) : R.hs[h].peer = p}
    IN  IF mine = {}
        THEN [R EXCEPT !.pcs = MapSet(@, p, Len(R.hs) + 1),
                       !.hs  = Append(@, NewHandle(p))]
        ELSE [R EXCEPT !.pcs = MapSet(@, p, CHOOSE h \in mine :
                                               \A g \in mine : g <= h)]

\* new RTCPeerConnection(...); setupFallbackMechanism; setupPeerConnectionEvents;
\* this.peerConnections.set(peerId, peerConnection)
createPeerConnection(R, p) ==
    [R EXCEPT !.pcs = MapSet(@, p, Len(R.hs) + 1),
              !.hs  = Append(@, NewHandle(p))]

\* RTCPeerConnection.close()
ClosePC(hs, h) ==
    [hs EXCEPT ![h].closed = TRUE, ![h].signalingState = "closed"]

\* ConnectionQualityMonitor.startMonitoring: setInterval, its id stored in
\* statsInterval (overwriting the id of a timer started before)
startMonitoring(m) == [m EXCEPT !.statsInterval = TRUE, !.timers = @ + 1]

\* ConnectionQualityMonitor.stopMonitoring: clearInterval of the stored id
stopMonitoring(m) ==
    IF m.statsInterval THEN [m EXCEPT !.statsInterval = FALSE, !.timers = @ - 1]
    ELSE m

\* new ConnectionQualityMonitor(peerConnection, onQualityChange)
NewMonitor(p, h) ==
    [peer |-> p, handle |-> h, statsInterval |-> FALSE, timers |-> 0]

\* new ConnectionStateManager(peerConnection, onStateChange); startMonitoring
NewManager(p, h) == [peer |-> p, handle |-> h, monitoring |-> TRUE]

startQualityMonitoring(R, p) ==
    IF MapHas(R.pcs, p)
    THEN [R EXCEPT !.mons = Append(@, startMonitoring(NewMonitor(p, MapGet(R.pcs, p)))),
                   !.qms  = MapSet(@, p, Len(R.mons) + 1)]
    ELSE R

stopQualityMonitoring(R, p) ==
    IF MapHas(R.qms, p)
    THEN [R EXCEPT !.mons[MapGet(R.qms, p)] = stopMonitoring(@),
                   !.qms = MapDelete(@, p)]
    ELSE R

stopStateMonitoring(R, p) ==
    IF MapHas(R.sms, p) THEN [R EXCEPT !.sms = MapDelete(@, p)] ELSE R

\* (a close that leaves the monitor and the manager registered, for
\*  comparison with closeConnection)
closeConnectionKeepMonitors(R, p) ==
    IF MapHas(R.pcs, p)
    THEN [R EXCEPT !.hs  = ClosePC(@, MapGet(R.pcs, p)),
                   !.pcs = MapDelete(@, p)]
    ELSE R

closeConnection(R, p) ==
    IF MapHas(R.pcs, p)
    THEN LET R1 == stopStateMonitoring(stopQualityMonitoring(R, p), p)
         IN  [R1 EXCEPT !.hs  = ClosePC(@, MapGet(R.pcs, p)),
                        !.pcs = MapDelete(@, p)]
    ELSE R

RECURSIVE closeEach(_, _)
closeEach(R, keys) ==
    IF keys = {} THEN R
    ELSE LET k == CHOOSE x \in keys : TRUE
         IN  closeEach(closeConnection(R, k), keys \ {k})

\* (a loop that ends after the first entry it closes, for comparison with
\*  closeAllConnections)
closeAllConnectionsFirst(R) ==
    IF R.pcs = {} THEN R
    ELSE closeConnection(R, (CHOOSE e \in R.pcs : TRUE)[1])

\* for (const [peerId] of this.peerConnections) this.closeConnection(peerId):
\* a Map iterator visits every entry present when it reaches it, and an entry
\* deleted during the loop is the one just visited
closeAllConnections(R) == closeEach(R, {e[1] : e \in R.pcs})

\* the registry variables take the values of registry R
SetRegistry(R) ==
    /\ peerConnections' = R.pcs
    /\ handles' = R.hs
    /\ qualityMonitors' = R.qms
    /\ stateManagers' = R.sms
    /\ monitors' = R.mons

----------------------------------------------------------------------------
(* SignalingService *)

PeerDirected == {"offer", "answer", "ice_candidate"}
MsgTypes == {"room_created", "room_joined", "participant_joined",
             "participant_left", "unknown"} \cup PeerDirected

\* (a switch whose default case falls into the ice_candidate case, for
\*  comparison with Route)
RouteDefaultFallsThrough(type) ==
    CASE type = "room_created"       -> "onRoomCreated"
      [] type = "room_joined"        -> "onRoomJoined"
      [] type = "participant_joined" -> "onParticipantJoined"
      [] type = "participant_left"   -> "onParticipantLeft"
      [] OTHER                       -> "onSignalingMessage"

\* the switch of SignalingService.handleSignalingMessage: the callback a kind selects
Route(type) ==
    CASE type = "room_created"       -> "onRoomCreated"
      [] type = "room_joined"        -> "onRoomJoined"
      [] type = "participant_joined" -> "onParticipantJoined"
      [] type = "participant_left"   -> "onParticipantLeft"
      [] type \in PeerDirected       -> "onSignalingMessage"
      [] OTHER                       -> "none"

\* the callbacks the switch actually invokes (each case tests that it is set)
Dispatched(type) == {Route(type)} \cap callbacks

\* sendSignalingMessage: socket.send when the socket is OPEN, else console.error
sendSignalingMessage(log, env) ==
    IF socket = "open" THEN Append(log, env) ELSE log

\* storePendingCandidate / getPendingCandidates / clearPendingCandidates
storePendingCandidate(pend, p, c) == [pend EXCEPT ![p] = Append(@, c)]
getPendingCandidates(pend, p) == pend[p]
clearPendingCandidates(pend, p) == [pend EXCEPT ![p] = << >>]

----------------------------------------------------------------------------
(* OptimizedMeeting *)

\* (a handler without the `to` test, for comparison with IsForMe)
IsForMeAlways(to) == TRUE

\* "if (to !== username) return" of the component's handleSignalingMessage
IsForMe(to) == to = username

\* the switch of the component's handleSignalingMessage
InnerHandler(type) ==
    CASE type = "offer"         -> "handleOffer"
      [] type = "answer"        -> "handleAnswer"
      [] type = "ice_candidate" -> "handleRemoteIceCandidate"
      [] OTHER                  -> "none"

Received(type, from, to, c, inner, err) ==
    [type |-> type, from |-> from, to |-> to, cand |-> c,
     dispatched |-> Dispatched(type), inner |-> inner, error |-> err,
     hadEntry |-> MapHas(peerConnections, from)]

Task(kind, attempt, opts, desc, c) ==
    [kind |-> kind, attempt |-> attempt, opts |-> opts, desc |-> desc, cand |-> c]

\* a primitive is issued on handle h: it joins the handle's operations chain
Issue(hs, h, t) == [hs EXCEPT ![h].ops = Append(@, t)]

\* useEffect: both setCallbacks calls, then initializeWebSocket(roomName, username)
Mount ==
    /\ callbacks = {} /\ socket = "null" /\ ~left
    /\ callbacks' = {"onSignalingMessage", "onParticipantJoined",
                     "onParticipantLeft", "onRoomError"}
    /\ socket' = "connecting"
    /\ UNCHANGED <<left, peerConnections, handles, pendingCandidates, sent,
                   last, nrecv>>
    /\ UNCHANGED <<rc, qm, auxMedia>>

\* socket.onopen: the join envelope is sent
SocketOpen ==
    /\ socket = "connecting"
    /\ socket' = "open"
    /\ sent' = Append(sent, [type |-> "join", to |-> "room"])
    /\ UNCHANGED <<callbacks, left, peerConnections, handles, pendingCandidates,
                   last, nrecv>>
    /\ UNCHANGED <<rc, qm, auxMedia>>

CanReceive == socket = "open" /\ nrecv < MaxMsgs

\* room_created, room_joined and unrecognized kinds
RecvOther(type) ==
    /\ CanReceive
    /\ nrecv' = nrecv + 1
    /\ last' = Received(type, "none", "none", NoCand, "none", "none")
    /\ UNCHANGED <<callbacks, socket, left, peerConnections, handles,
                   pendingCandidates, sent>>
    /\ UNCHANGED <<rc, qm, auxMedia>>

\* participant_joined -> handleParticipantJoined up to its first await:
\* createPeerConnection, (addLocalStream: the registered closure's localStream
\* is the first render's null), webRTCService.createOffer -> the wrapped
\* peerConnection.createOffer({}) issues the first originalCreateOffer
RecvParticipantJoined(p) ==
    /\ CanReceive
    /\ nrecv' = nrecv + 1
    /\ last' = Received("participant_joined", p, "none", NoCand,
                        "handleParticipantJoined", "none")
    /\ IF "onParticipantJoined" \in callbacks
       THEN LET R == createPeerConnection(Registry, p)
                h == MapGet(R.pcs, p)
            IN  /\ peerConnections' = R.pcs
                /\ handles' = Issue([R.hs EXCEPT ![h].attempts = @ + 1,
                                                  ![h].offerResult = "pending"],
                                     h, Task("createOffer", 1, EmptyOptions,
                                             NoDesc, NoCand))
                /\ media' = [media EXCEPT !.participants = Append(@, p)]
       ELSE UNCHANGED <<peerConnections, handles, media>>
    /\ UNCHANGED <<callbacks, socket, left, pendingCandidates, sent>>
    /\ UNCHANGED <<rc, qm, aux>>

\* participant_left -> handleParticipantLeft -> closeConnection
RecvParticipantLeft(p) ==
    /\ CanReceive
    /\ nrecv' = nrecv + 1
    /\ last' = Received("participant_left", p, "none", NoCand,
                        "handleParticipantLeft", "none")
    /\ IF "onParticipantLeft" \in callbacks
       THEN /\ SetRegistry(closeConnection(Registry, p))
            /\ media' = [media EXCEPT
                           !.participants = SelectSeq(@, LAMBDA q : q # p)]
       ELSE UNCHANGED <<peerConnections, handles, qualityMonitors,
                        stateManagers, monitors, media>>
    /\ UNCHANGED <<callbacks, socket, left, pendingCandidates, sent>>
    /\ UNCHANGED <<rc, qm, managers, call, ice>>

\* webRTCService.hasConnection is called by handleOffer but WebRTCService
\* defines no such method: the call raises a TypeError before anything else runs
handleOfferError == "TypeError: webRTCService.hasConnection is not a function"

NoPeerError == "No peer connection found"

\* what the component's handler for a peer-directed kind does up to its first
\* await: the error it raises, and the primitive it issues on the entry's handle
InnerError(inner, from) ==
    CASE inner = "handleOffer" -> handleOfferError
      [] inner \in {"handleAnswer", "handleRemoteIceCandidate"}
           /\ ~MapHas(peerConnections, from) -> NoPeerError
      [] OTHER -> "none"

RemoteAnswer == [kind |-> "answer", attempt |-> 0, opts |-> EmptyOptions]

InnerTasks(inner, from, c) ==
    CASE inner = "handleAnswer" /\ MapHas(peerConnections, from) ->
           <<Task("setRemoteDescription", 0, EmptyOptions, RemoteAnswer, NoCand)>>
      [] inner = "handleRemoteIceCandidate" /\ MapHas(peerConnections, from) ->
           <<Task("addIceCandidate", 0, EmptyOptions, NoDesc, c)>>
      [] OTHER -> << >>

\* offer / answer / ice_candidate -> onSignalingMessage -> the component's
\* handleSignalingMessage -> handleOffer / handleAnswer / handleRemoteIceCandidate
RecvPeerMessage(type, from, to, c) ==
    /\ CanReceive
    /\ nrecv' = nrecv + 1
    /\ LET inner == IF "onSignalingMessage" \in Dispatched(type) /\ IsForMe(to)
                    THEN InnerHandler(type) ELSE "none"
           issued == InnerTasks(inner, from, c)
       IN  /\ last' = Received(type, from, to, c, inner, InnerError(inner, from))
           /\ handles' = IF issued = << >> THEN handles
                         ELSE Issue(handles, MapGet(peerConnections, from), issued[1])
    /\ UNCHANGED <<callbacks, socket, left, peerConnections, pendingCandidates,
                   sent>>
    /\ UNCHANGED <<rc, qm, auxMedia>>

RecvOffer(from, to) == RecvPeerMessage("offer", from, to, NoCand)

RecvAnswer(from, to) == RecvPeerMessage("answer", from, to, NoCand)

RecvIceCandidate(from, to, c) == RecvPeerMessage("ice_candidate", from, to, c)

\* leaveMeeting: the tracks of localStream and of the current screen stream
\* are stopped, then closeAllConnections, then signalingService.close()
LeaveMeeting ==
    /\ callbacks # {} /\ ~left
    /\ left' = TRUE
    /\ SetRegistry(closeAllConnections(Registry))
    /\ socket' = "null"
    /\ media' = [media EXCEPT
                   !.screens = SelectSeq(@, LAMBDA s :
                                            s.stream # media.screenStream)]
    /\ UNCHANGED <<callbacks, pendingCandidates, sent, last, nrecv>>
    /\ UNCHANGED <<rc, qm, managers, call, ice>>

----------------------------------------------------------------------------
(* Completion of the awaited negotiation primitives.  An RTCPeerConnection *)
(* runs its operations one at a time in the order they were issued, so the *)
(* first pending primitive of a handle is the one that settles.  Once the  *)
(* handle is closed the platform abandons its operations chain: a promise  *)
(* still pending at close() is neither resolved nor rejected, so nothing   *)
(* that awaits it ever continues.                                          *)

Pending(h, kind) ==
    /\ h \in 1..Len(handles)
    /\ ~handles[h].closed
    /\ handles[h].ops # << >>
    /\ Head(handles[h].ops).kind = kind

\* the first pending primitive of h has settled
Settled(hs, h) == [hs EXCEPT ![h].ops = Tail(@)]

\* (a retry with the caller's options again, for comparison with FallbackOptions)
FallbackOptionsUnchanged(options) == options

\* fallbackOptions of setupFallbackMechanism
FallbackOptions(options) ==
    [options EXCEPT !.offerToReceiveAudio = "true",
                    !.offerToReceiveVideo = "true",
                    !.voiceActivityDetection = "true"]

\* the description an originalCreateOffer call resolves with
OfferDesc(t) == [kind |-> "offer", attempt |-> t.attempt, opts |-> t.opts]

\* originalCreateOffer settles: resolved (ok) or rejected.  Resolved: the
\* wrapper returns it and WebRTCService.createOffer issues setLocalDescription.
\* Rejected on the first attempt: the wrapper's catch issues the fallback
\* attempt.  Rejected on the fallback attempt: the error reaches the caller.
CreateOfferSettles(h, ok) ==
    /\ Pending(h, "createOffer")
    /\ LET t == Head(handles[h].ops)
           hs == [Settled(handles, h) EXCEPT ![h].outcomes = Append(@, ok)]
       IN  IF ok
           THEN handles' = Issue(hs, h, Task("setLocalDescription", t.attempt,
                                             t.opts, OfferDesc(t), NoCand))
           ELSE IF t.attempt = 1
           THEN handles' = Issue([hs EXCEPT ![h].attempts = @ + 1], h,
                                 Task("createOffer", 2, FallbackOptions(t.opts),
                                      NoDesc, NoCand))
           ELSE handles' = [hs EXCEPT ![h].offerResult = "error"]
    /\ UNCHANGED <<callbacks, socket, left, peerConnections, pendingCandidates,
                   sent, last, nrecv>>
    /\ UNCHANGED <<rc, qm, auxMedia>>

\* setLocalDescription(offer) settles; on success WebRTCService.createOffer
\* returns the offer and handleParticipantJoined calls sendOffer
SetLocalDescriptionSettles(h) ==
    /\ Pending(h, "setLocalDescription")
    /\ LET t == Head(handles[h].ops)
           hs == Settled(handles, h)
       IN  IF handles[h].signalingState \in {"stable", "have-local-offer"}
           THEN /\ handles' = [hs EXCEPT
                                 ![h].localDescription = t.desc,
                                 ![h].signalingState = "have-local-offer",
                                 ![h].offerResult = "returned",
                                 ![h].returned = t.desc]
                /\ sent' = sendSignalingMessage(sent,
                              [type |-> "offer", to |-> handles[h].peer])
           ELSE /\ handles' = [hs EXCEPT ![h].offerResult = "error"]
                /\ UNCHANGED sent
    /\ UNCHANGED <<callbacks, socket, left, peerConnections, pendingCandidates,
                   last, nrecv>>
    /\ UNCHANGED <<rc, qm, auxMedia>>

\* (a platform that applies a remote description in every signaling state,
\*  for comparison with RemoteApplies)
RemoteAppliesAlways(state, kind, rollback) == TRUE

\* RTCPeerConnection.setRemoteDescription: an answer is applied in
\* have-local-offer, an offer in stable or have-remote-offer; an offer that
\* meets have-local-offer is applied by the platforms that roll the local
\* offer back and rejected by the others; every other case is rejected
\* (InvalidStateError)
RemoteApplies(state, kind, rollback) ==
    \/ kind = "answer" /\ state = "have-local-offer"
    \/ kind = "offer" /\ state \in {"stable", "have-remote-offer"}
    \/ kind = "offer" /\ state = "have-local-offer" /\ rollback

\* setRemoteDescription settles
SetRemoteDescriptionSettles(h) ==
    /\ Pending(h, "setRemoteDescription")
    /\ \E rollback \in BOOLEAN :
         LET t == Head(handles[h].ops)
             x == handles[h]
             hs == Settled(handles, h)
         IN  IF RemoteApplies(x.signalingState, t.desc.kind, rollback)
             THEN handles' =
                    [hs EXCEPT ![h].remoteDescription = t.desc,
                               ![h].localDescription =
                                   IF t.desc.kind = "offer" THEN NoDesc ELSE @,
                               ![h].signalingState =
                                   IF t.desc.kind = "offer"
                                   THEN "have-remote-offer" ELSE "stable"]
             ELSE handles' = hs
    /\ UNCHANGED <<callbacks, socket, left, peerConnections, pendingCandidates,
                   sent, last, nrecv>>
    /\ UNCHANGED <<rc, qm, auxMedia>>

\* RTCPeerConnection.addIceCandidate settles: applied when the handle is open
\* and has a remote description, rejected (InvalidStateError) otherwise
AddIceCandidateSettles(h) ==
    /\ Pending(h, "addIceCandidate")
    /\ LET t == Head(handles[h].ops)
           hs == Settled(handles, h)
       IN  IF ~handles[h].closed /\ handles[h].remoteDescription # NoDesc
           THEN handles' = [hs EXCEPT ![h].candidates = Append(@, t.cand)]
           ELSE handles' = hs
    /\ UNCHANGED <<callbacks, socket, left, peerConnections, pendingCandidates,
                   sent, last, nrecv>>
    /\ UNCHANGED <<rc, qm, auxMedia>>

Next ==
    \/ Mount
    \/ SocketOpen
    \/ \E type \in {"room_created", "room_joined", "unknown"} : RecvOther(type)
    \/ \E p \in Peers : RecvParticipantJoined(p)
    \/ \E p \in Peers : RecvParticipantLeft(p)
    \/ \E from \in Peers, to \in Names : RecvOffer(from, to)
    \/ \E from \in Peers, to \in Names : RecvAnswer(from, to)
    \/ \E from \in Peers, to \in Names, c \in Cands : RecvIceCandidate(from, to, c)
    \/ LeaveMeeting
    \/ \E h \in 1..Len(handles), ok \in BOOLEAN : CreateOfferSettles(h, ok)
    \/ \E h \in 1..Len(handles) : SetLocalDescriptionSettles(h)
    \/ \E h \in 1..Len(handles) : SetRemoteDescriptionSettles(h)
    \/ \E h \in 1..Len(handles) : AddIceCandidateSettles(h)

Spec == Init /\ [][Next]_vars

----------------------------------------------------------------------------
(* Properties of the registry and the signaling channel *)

Range(seq) == {seq[i] : i \in 1..Len(seq)}

\* C1: a remote ICE candidate delivered to handleRemoteIceCandidate while
\* peerConnections holds no entry for its sender is not rejected: it is kept in
\* the pending candidate queue of that peer until the entry is created.
C1_CandidateBeforeEntryIsQueued ==
    (last.inner = "handleRemoteIceCandidate" /\ ~last.hadEntry)
        => /\ last.error = "none"
           /\ last.cand \in Range(getPendingCandidates(pendingCandidates, last.from))

\* C2: createPeerConnection(p) is idempotent: when an entry for p exists, a
\* second createPeerConnection(p) leaves the registry as it is (same handle,
\* nothing constructed, same negotiation state).
C2_CreateIsIdempotent ==
    \A p \in Peers :
        MapHas(peerConnections, p)
            => createPeerConnection(Registry, p) = Registry

\* C3: the registry holds at most one peer connection entry per participant
\* identifier.
C3_OneEntryPerPeer ==
    \A e1, e2 \in peerConnections : e1[1] = e2[1] => e1 = e2

\* C3 witness: a peer whose entry was created while it already had one
C3_Witness ==
    \E p \in Peers :
        /\ MapHas(peerConnections, p)
        /\ Cardinality({h \in 1..Len(handles) : handles[h].peer = p}) >= 2

Foreign(m) == m.type \in PeerDirected /\ m.to # username

\* C4 as stated: an offer, answer or ice_candidate whose `to` is not the local
\* participant identifier is dispatched to no registered handler at all.
C4_ForeignNeverDispatched ==
    Foreign(last) => last.dispatched = {}

\* C4 amended: such an envelope is handed by SignalingService to
\* onSignalingMessage only, which returns before handleOffer, handleAnswer or
\* handleRemoteIceCandidate runs; the registry, the handles, the pending queue
\* and the outgoing envelopes are unchanged by it.
C4_ForeignIsDropped ==
    [][(nrecv' # nrecv /\ Foreign(last'))
          => /\ last'.dispatched \subseteq {"onSignalingMessage"}
             /\ last'.inner = "none"
             /\ last'.error = "none"
             /\ UNCHANGED <<peerConnections, handles, pendingCandidates, sent>>]_vars

\* C4 witness: a foreign envelope was received while an entry for its sender
\* was registered
C4_Witness ==
    /\ Foreign(last)
    /\ last.hadEntry
    /\ last.dispatched = {"onSignalingMessage"}

OffersSentTo(p) == {i \in 1..Len(sent) : sent[i] = [type |-> "offer", to |-> p]}

HandlesOf(p, result) ==
    {h \in 1..Len(handles) : handles[h].peer = p /\ handles[h].offerResult = result}

\* C7: a createOffer call invokes the underlying offer primitive at most twice;
\* when the first attempt succeeds its description (made with the caller's
\* options) is what is returned; when the first fails and the second succeeds
\* the second's description, made with offerToReceiveAudio, offerToReceiveVideo
\* and voiceActivityDetection set, is returned after exactly 2 attempts; when
\* both fail the call fails, no local description is applied and no offer is
\* sent for it.
C7_FallbackOffer ==
    /\ \A h \in 1..Len(handles) :
         LET x == handles[h]
         IN  /\ x.attempts <= 2
             /\ Len(x.outcomes) <= x.attempts
             /\ x.offerResult = "returned"
                  => /\ x.outcomes \in {<<TRUE>>, <<FALSE, TRUE>>}
                     /\ x.attempts = Len(x.outcomes)
                     /\ x.localDescription = x.returned
             /\ (x.offerResult = "returned" /\ x.outcomes = <<TRUE>>)
                  => x.returned = [kind |-> "offer", attempt |-> 1,
                                   opts |-> EmptyOptions]
             /\ (x.offerResult = "returned" /\ x.outcomes = <<FALSE, TRUE>>)
                  => x.returned = [kind |-> "offer", attempt |-> 2,
                                   opts |-> [offerToReceiveAudio |-> "true",
                                             offerToReceiveVideo |-> "true",
                                             voiceActivityDetection |-> "true"]]
             /\ x.outcomes = <<FALSE, FALSE>>
                  => x.offerResult = "error"
             /\ x.offerResult = "error" => x.localDescription = NoDesc
    /\ \A p \in Peers :
         Cardinality(OffersSentTo(p)) <= Cardinality(HandlesOf(p, "returned"))

\* C7 witness: one call returned the fallback's description after two
\* attempts and another call failed on both attempts
C7_Witness ==
    \E h1, h2 \in 1..Len(handles) :
        /\ handles[h1].outcomes = <<FALSE, TRUE>>
        /\ handles[h1].offerResult = "returned"
        /\ handles[h2].outcomes = <<FALSE, FALSE>>
        /\ handles[h2].offerResult = "error"
        /\ ~handles[h2].closed

\* the addIceCandidate primitive at the head of h's operations settles in
\* this step
IceSettles(h) ==
    /\ Pending(h, "addIceCandidate")
    /\ handles'[h].ops = Tail(handles[h].ops)

\* C13: addIceCandidate(p, c) applies c to p's handle only when p's entry has
\* a remote description; when the entry exists but has no remote description
\* yet, c is not applied and is put in the pending candidate queue of p.
C13_EarlyCandidateIsQueued ==
    [][\A h \in 1..Len(handles) :
         (IceSettles(h) /\ MapGet(peerConnections, handles[h].peer) = h)
           => LET c == Head(handles[h].ops).cand
              IN  IF handles[h].remoteDescription # NoDesc
                  THEN handles'[h].candidates = Append(handles[h].candidates, c)
                  ELSE /\ handles'[h].candidates = handles[h].candidates
                       /\ c \in Range(getPendingCandidates(pendingCandidates',
                                                           handles[h].peer))]_vars

\* C19: each received message invokes at most one registered handler, chosen
\* by its kind alone (offer, answer and ice_candidate: onSignalingMessage;
\* participant_joined: onParticipantJoined; participant_left:
\* onParticipantLeft); a message of an unrecognized kind invokes no handler,
\* changes no state, and leaves the channel able to process later messages.
C19_OneHandlerByKind ==
    [][nrecv' # nrecv
         => LET m == last'
            IN  /\ Cardinality(m.dispatched) <= 1
                /\ m.type \in PeerDirected
                     => m.dispatched = {"onSignalingMessage"}
                /\ m.type = "participant_joined"
                     => m.dispatched = {"onParticipantJoined"}
                /\ m.type = "participant_left"
                     => m.dispatched = {"onParticipantLeft"}
                /\ m.type = "unknown"
                     => /\ m.dispatched = {}
                        /\ m.inner = "none"
                        /\ m.error = "none"
                        /\ socket' = "open"
                        /\ UNCHANGED <<callbacks, socket, left, peerConnections,
                                       handles, pendingCandidates, sent,
                                       qualityMonitors, stateManagers,
                                       monitors, managers>>]_vars

\* C19 witness: a message of an unrecognized kind was received while a peer
\* had an entry, and the channel can still take the next message
C19_Witness ==
    /\ last.type = "unknown"
    /\ last.dispatched = {}
    /\ peerConnections # {}
    /\ CanReceive

\* the negotiation state of a handle: new until something is negotiated on
\* it, then its signaling state
Negotiation(x) ==
    IF x.closed THEN "closed"
    ELSE IF /\ x.signalingState = "stable"
            /\ x.localDescription = NoDesc
            /\ x.remoteDescription = NoDesc
         THEN "new"
         ELSE x.signalingState

NegotiationSteps ==
    {<<"new", "have-local-offer">>, <<"have-local-offer", "stable">>,
     <<"new", "have-remote-offer">>, <<"have-remote-offer", "stable">>}
    \cup {<<st, "closed">> : st \in {"new", "have-local-offer",
                                    "have-remote-offer", "stable"}}

C21_EveryEntryIsMonitored ==
    \A e \in peerConnections :
        MapHas(qualityMonitors, e[1]) /\ MapHas(stateManagers, e[1])

\* handle h, whose peer has no entry any more, has a primitive awaiting
\* completion and is changed by this step: the continuation of that primitive
Continues(h) ==
    /\ ~MapHas(peerConnections, handles[h].peer)
    /\ handles[h].ops # << >>
    /\ handles'[h] # handles[h]

\* C23: when closeConnection(p) ran while a negotiation step on a handle of p
\* was awaiting completion, what runs after the completion is a no-op: it
\* raises no error, applies no description to the handle and does not change
\* the registry.
C23_ContinuationAfterCloseIsNoOp ==
    [][\A h \in 1..Len(handles) :
         Continues(h)
           => /\ handles'[h].offerResult = "error"
                   => handles[h].offerResult = "error"
              /\ handles'[h].localDescription = handles[h].localDescription
              /\ handles'[h].remoteDescription = handles[h].remoteDescription
              /\ <<peerConnections, qualityMonitors, stateManagers>>'
                   = <<peerConnections, qualityMonitors, stateManagers>>]_vars

\* this step receives an ice_candidate from the peer whose offer was the
\* message received just before it, both addressed to this participant
CandidateFollowsOffer ==
    /\ nrecv' # nrecv
    /\ last.type = "offer" /\ IsForMe(last.to)
    /\ last'.type = "ice_candidate" /\ IsForMe(last'.to)
    /\ last'.from = last.from

\* C24: operations on one peer's entry take effect in arrival order: when an
\* offer from p is followed by an ice_candidate from p, the candidate is
\* applied only after the offer's remote description: when the candidate is
\* handed to p's handle, the offer is already applied there or is ahead of
\* the candidate in the handle's operations chain.
C24_CandidateAfterOffer ==
    [][CandidateFollowsOffer
         => /\ MapHas(peerConnections', last'.from)
            /\ LET x == handles'[MapGet(peerConnections', last'.from)]
               IN  \/ x.remoteDescription.kind = "offer"
                   \/ \E i, j \in 1..Len(x.ops) :
                        /\ i < j
                        /\ x.ops[i].kind = "setRemoteDescription"
                        /\ x.ops[i].desc.kind = "offer"
                        /\ x.ops[j].kind = "addIceCandidate"
                        /\ x.ops[j].cand = last'.cand]_vars

\* C29: every handle that was created and not closed is the one registered in
\* peerConnections for its peer; no open handle is unreachable from the
\* registry.
C29_OpenHandlesAreRegistered ==
    \A h \in 1..Len(handles) :
        ~handles[h].closed
          => /\ MapHas(peerConnections, handles[h].peer)
             /\ MapGet(peerConnections, handles[h].peer) = h

\* C30: no offer, answer or ice_candidate envelope addressed to p is sent
\* while p has no entry (after participant_left for p and before p joins
\* again), and none is sent after leaveMeeting.
C30_NoEnvelopeAfterLeft ==
    [][Len(sent') > Len(sent)
         => LET env == sent'[Len(sent')]
            IN  env.type \in PeerDirected
                  => MapHas(peerConnections, env.to) /\ ~left]_vars

----------------------------------------------------------------------------
(* ConnectionStateManager (utils/signalingOptimizer) *)

appVars == <<callbacks, socket, left, peerConnections, handles,
             pendingCandidates, sent, last, nrecv>>

maxReconnectAttempts == 3
reconnectDelay == 1000

RECURSIVE Pow2(_)
Pow2(n) == IF n <= 0 THEN 1 ELSE 2 * Pow2(n - 1)

ConnStates == {"new", "connecting", "connected", "disconnected", "failed"}
IceStates == {"new", "checking", "connected", "disconnected", "failed"}

\* (the guard written with <=, for comparison with handleDisconnection)
handleDisconnectionOffByOne(m) ==
    IF m.reconnectAttempts <= maxReconnectAttempts
    THEN [m EXCEPT !.reconnectAttempts = @ + 1,
                   !.timers = Append(@, reconnectDelay * Pow2(m.reconnectAttempts)),
                   !.scheduled = Append(@, reconnectDelay * Pow2(m.reconnectAttempts))]
    ELSE m

\* handleDisconnection: below the maximum, count the attempt and setTimeout the
\* ICE restart after reconnectDelay * 2^(reconnectAttempts - 1)
handleDisconnection(m) ==
    IF m.reconnectAttempts < maxReconnectAttempts
    THEN [m EXCEPT !.reconnectAttempts = @ + 1,
                   !.timers = Append(@, reconnectDelay * Pow2(m.reconnectAttempts)),
                   !.scheduled = Append(@, reconnectDelay * Pow2(m.reconnectAttempts))]
    ELSE m

\* a listener of startMonitoring saw the connection enter `state`
OnStateEvent(m, state) ==
    IF m.monitoring /\ state \in {"disconnected", "failed"}
    THEN [handleDisconnection(m) EXCEPT !.disconnections = @ + 1]
    ELSE m

\* startMonitoring: both listeners are attached (startStateMonitoring calls it
\* once, on the manager it has just constructed)
RcStartMonitoring ==
    /\ ~rc.monitoring
    /\ rc' = [rc EXCEPT !.monitoring = TRUE]
    /\ UNCHANGED <<appVars, qm, auxMedia>>

\* the platform moves connectionState and fires connectionstatechange
RcConnectionStateChange(state) ==
    /\ ~rc.closed
    /\ rc.events < MaxStateEvents
    /\ state # rc.connectionState
    /\ rc' = OnStateEvent(
               [rc EXCEPT !.connectionState = state, !.events = @ + 1,
                          !.notified = IF rc.monitoring THEN state ELSE @],
               state)
    /\ UNCHANGED <<appVars, qm, auxMedia>>

\* the platform moves iceConnectionState and fires iceconnectionstatechange
RcIceConnectionStateChange(state) ==
    /\ ~rc.closed
    /\ rc.events < MaxStateEvents
    /\ state # rc.iceConnectionState
    /\ rc' = OnStateEvent(
               [rc EXCEPT !.iceConnectionState = state, !.events = @ + 1], state)
    /\ UNCHANGED <<appVars, qm, auxMedia>>

\* the connection is lost: in one task the platform moves iceConnectionState
\* and then connectionState into `state` and fires both events, first
\* iceconnectionstatechange, then connectionstatechange
RcNetworkDisconnection(state) ==
    /\ ~rc.closed
    /\ rc.events + 1 < MaxStateEvents
    /\ state # rc.iceConnectionState
    /\ state # rc.connectionState
    /\ LET afterIce == OnStateEvent(
                         [rc EXCEPT !.iceConnectionState = state,
                                    !.events = @ + 1], state)
       IN  rc' = OnStateEvent(
                   [afterIce EXCEPT
                      !.connectionState = state, !.events = @ + 1,
                      !.notified = IF rc.monitoring THEN state ELSE @],
                   state)
    /\ UNCHANGED <<appVars, qm, auxMedia>>

\* closeConnection of the manager's peer: peerConnection.close(), after which
\* the platform fires no more state events, and stopStateMonitoring, which
\* only removes the manager from the stateManagers map
RcCloseConnection ==
    /\ ~rc.closed
    /\ rc' = [rc EXCEPT !.closed = TRUE, !.connectionState = "closed",
                        !.iceConnectionState = "closed"]
    /\ UNCHANGED <<appVars, qm, auxMedia>>

\* a setTimeout of handleDisconnection expires: peerConnection.restartIce()
RcTimerFires(i) ==
    /\ i \in 1..Len(rc.timers)
    /\ rc' = [rc EXCEPT !.timers = SubSeq(@, 1, i - 1) \o SubSeq(@, i + 1, Len(@)),
                        !.restarts = @ + 1]
    /\ UNCHANGED <<appVars, qm, auxMedia>>

\* resetReconnectAttempts, called by the owner of the manager
RcResetReconnectAttempts ==
    /\ rc.reconnectAttempts # 0
    /\ rc' = [rc EXCEPT !.reconnectAttempts = 0, !.disconnections = 0,
                        !.scheduled = << >>]
    /\ UNCHANGED <<appVars, qm, auxMedia>>

NextReconnect ==
    \/ RcStartMonitoring
    \/ \E state \in ConnStates : RcConnectionStateChange(state)
    \/ \E state \in IceStates : RcIceConnectionStateChange(state)
    \/ \E state \in {"disconnected", "failed"} : RcNetworkDisconnection(state)
    \/ RcCloseConnection
    \/ \E i \in 1..Len(rc.timers) : RcTimerFires(i)
    \/ RcResetReconnectAttempts

SpecReconnect == Init /\ [][NextReconnect]_vars

Min(a, b) == IF a < b THEN a ELSE b

\* C5: while the counter is not reset, the 1st, 2nd and 3rd transitions into
\* disconnected/failed schedule an ICE restart after 1000, 2000 and 4000 ms,
\* the 4th and later ones schedule none, and reconnectAttempts never exceeds 3.
C5_BackoffSchedule ==
    /\ rc.reconnectAttempts <= 3
    /\ rc.scheduled = SubSeq(<<1000, 2000, 4000>>, 1, Min(rc.disconnections, 3))

\* C5 witness: a 4th transition into disconnected/failed without a reset
C5_Witness ==
    /\ rc.disconnections >= 4
    /\ rc.scheduled = <<1000, 2000, 4000>>

\* C6: when the observed connection reaches the connected state the retry
\* counter is reset to zero.
C6_ResetOnConnected ==
    [][(rc.monitoring /\ rc.connectionState # "connected"
          /\ rc'.connectionState = "connected")
        => rc'.reconnectAttempts = 0]_vars

\* this step is one loss of the connection, reported by both events
ReportedTwice == rc.monitoring /\ rc'.events = rc.events + 2

\* C27: one network disconnection, reported as both an iceConnectionState and
\* a connectionState transition, consumes exactly one retry attempt and
\* schedules exactly one ICE restart.
C27_OneDisconnectionOneAttempt ==
    [][(ReportedTwice /\ rc.reconnectAttempts < maxReconnectAttempts)
         => /\ rc'.reconnectAttempts = rc.reconnectAttempts + 1
            /\ Len(rc'.timers) = Len(rc.timers) + 1]_vars

\* C28: a scheduled ICE restart is never executed after closeConnection has
\* run for the manager's peer, nor after the connection has returned to
\* connected before the delay elapsed.
C28_NoRestartAfterCloseOrRecovery ==
    [][(\/ rc.closed
        \/ rc.connectionState = "connected"
             /\ rc.iceConnectionState = "connected")
         => rc'.restarts = rc.restarts]_vars

----------------------------------------------------------------------------
(* ConnectionQualityMonitor (utils/signalingOptimizer) *)

\* inbound-rtp video reports of one getStats() result, relative to the
\* previous report: elapsed milliseconds, bytes received since, and the
\* packetsLost / packetsReceived counters (packetsLost may be absent).
\* Every 8 * bytes / ms below is a whole number, as it is in the code's
\* floating-point division.
DeltaMs == {500, 1000, 2000}
DeltaBytes == {6250, 125000, 6250000, 37500000, 125000000}
PacketCounts ==
    {[hasPacketsLost |-> FALSE, packetsLost |-> 0, packetsReceived |-> 100]} \cup
    {[hasPacketsLost |-> TRUE, packetsLost |-> l, packetsReceived |-> 100 - l] :
        l \in {0, 1, 2, 5, 6}}

Reports(m) ==
    {[timestamp |-> m.lastTimestamp + dt, bytesReceived |-> m.lastBitrate + db,
      hasPacketsLost |-> pk.hasPacketsLost, packetsLost |-> pk.packetsLost,
      packetsReceived |-> pk.packetsReceived] :
        dt \in DeltaMs, db \in DeltaBytes, pk \in PacketCounts}

\* a getStats() result: no inbound video report, or one
StatsInputs(m) == {<< >>} \cup {<<r>> : r \in Reports(m)}

\* (the classification without its loss override, for comparison with Classify)
ClassifyBitrateOnly(totalBitrate, packetsLost, totalPackets) ==
    IF totalBitrate < 100000 THEN "poor"
    ELSE IF totalBitrate < 500000 THEN "fair"
    ELSE "good"

\* quality from totalBitrate and packetLossRate = packetsLost / totalPackets
\* (0 when totalPackets is 0); r > 0.05 is 100 * lost > 5 * total
Classify(totalBitrate, packetsLost, totalPackets) ==
    LET byBitrate == IF totalBitrate < 100000 THEN "poor"
                     ELSE IF totalBitrate < 500000 THEN "fair"
                     ELSE "good"
    IN  IF totalPackets > 0 /\ 100 * packetsLost > 5 * totalPackets THEN "poor"
        ELSE IF totalPackets > 0 /\ 100 * packetsLost > totalPackets THEN "fair"
        ELSE byBitrate

\* stats.forEach(report => ...): the accumulators and the monitor's baseline
RECURSIVE ForEachReport(_, _)
ForEachReport(acc, stats) ==
    IF stats = << >> THEN acc
    ELSE LET report == Head(stats)
             bitrate == IF acc.lastTimestamp # 0
                        THEN (8 * (report.bytesReceived - acc.lastBitrate))
                                 \div (report.timestamp - acc.lastTimestamp)
                        ELSE 0
             counted == report.hasPacketsLost
         IN  ForEachReport(
               [totalBitrate |-> acc.totalBitrate + bitrate,
                lastBitrate |-> report.bytesReceived,
                lastTimestamp |-> report.timestamp,
                packetsLost |-> IF counted THEN acc.packetsLost + report.packetsLost
                                ELSE acc.packetsLost,
                totalPackets |-> IF counted
                                 THEN acc.totalPackets + report.packetsReceived
                                                       + report.packetsLost
                                 ELSE acc.totalPackets],
               Tail(stats))

\* the then-callback of getStats(): one sample
Sample(m, stats) ==
    LET acc == ForEachReport(
                 [totalBitrate |-> 0, lastBitrate |-> m.lastBitrate,
                  lastTimestamp |-> m.lastTimestamp, packetsLost |-> 0,
                  totalPackets |-> 0], stats)
        delta == m.lastTimestamp # 0 /\ Len(stats) = 1
    IN  [m EXCEPT
           !.lastBitrate = acc.lastBitrate,
           !.lastTimestamp = acc.lastTimestamp,
           !.emitted =
              [quality |-> Classify(acc.totalBitrate, acc.packetsLost,
                                    acc.totalPackets),
               bitrate |-> acc.totalBitrate,
               packetsLost |-> acc.packetsLost,
               totalPackets |-> acc.totalPackets,
               hasDelta |-> delta,
               deltaBytes |-> IF delta THEN stats[1].bytesReceived - m.lastBitrate
                              ELSE 0,
               deltaMs |-> IF delta THEN stats[1].timestamp - m.lastTimestamp
                           ELSE 0]]

\* startMonitoring: setInterval; the new timer's id overwrites statsInterval
QmStartMonitoring ==
    /\ qm.timers < MaxTimers
    /\ qm' = [qm EXCEPT !.statsInterval = TRUE, !.timers = @ + 1]
    /\ UNCHANGED <<appVars, rc, auxMedia>>

\* an interval fires: peerConnection.getStats() is requested
QmTick ==
    /\ qm.timers > 0
    /\ qm.samples < MaxSamples
    /\ qm' = [qm EXCEPT !.inflight = @ + 1, !.samples = @ + 1]
    /\ UNCHANGED <<appVars, rc, auxMedia>>

\* a getStats() promise resolves and its callback classifies and emits
QmStats(stats) ==
    /\ qm.inflight > 0
    /\ qm' = [Sample(qm, stats) EXCEPT !.inflight = @ - 1]
    /\ UNCHANGED <<appVars, rc, auxMedia>>

\* stopMonitoring: clearInterval of the stored timer, if one is stored
QmStopMonitoring ==
    /\ qm' = IF qm.statsInterval
             THEN [qm EXCEPT !.statsInterval = FALSE, !.timers = @ - 1]
             ELSE qm
    /\ UNCHANGED <<appVars, rc, auxMedia>>

NextQuality ==
    \/ QmStartMonitoring
    \/ QmTick
    \/ \E stats \in StatsInputs(qm) : QmStats(stats)
    \/ QmStopMonitoring

SpecQuality == Init /\ [][NextQuality]_vars

Emitted == qm.emitted.quality # "none"

LossIs(e, lost) == e.packetsLost = lost /\ e.totalPackets = 100

\* C8: the emitted quality is poor for 50 kbps with 0% loss, fair for 300 kbps
\* with 0% loss, poor for 1 Mbps with 6% loss, fair for 1 Mbps with 2% loss,
\* good for 1 Mbps with 0% loss, and poor for every bitrate when loss > 5%.
C8_QualityClassification ==
    LET e == qm.emitted
    IN  Emitted =>
          /\ (e.bitrate = 50000 /\ LossIs(e, 0)) => e.quality = "poor"
          /\ (e.bitrate = 300000 /\ LossIs(e, 0)) => e.quality = "fair"
          /\ (e.bitrate = 1000000 /\ LossIs(e, 6)) => e.quality = "poor"
          /\ (e.bitrate = 1000000 /\ LossIs(e, 2)) => e.quality = "fair"
          /\ (e.bitrate = 1000000 /\ LossIs(e, 0)) => e.quality = "good"
          /\ (100 * e.packetsLost > 5 * e.totalPackets) => e.quality = "poor"

\* C8 witness: a sample of 1 Mbps with 6% loss was classified
C8_Witness ==
    /\ Emitted
    /\ qm.emitted.bitrate = 1000000
    /\ LossIs(qm.emitted, 6)

\* C9: with a loss rate in (1%, 5%] the emitted quality is fair when the
\* bitrate alone classifies as good or fair, and stays poor when the bitrate
\* is below 100 kbps.
C9_LossNeverImproves ==
    LET e == qm.emitted
    IN  (Emitted /\ 100 * e.packetsLost > e.totalPackets
                 /\ 100 * e.packetsLost <= 5 * e.totalPackets)
          => e.quality = (IF e.bitrate < 100000 THEN "poor" ELSE "fair")

\* C10: the emitted bitrate is in bits per second, 8 * B * 1000 / T for B bytes
\* received over T milliseconds, so that 125000 bytes over 1000 ms with no
\* loss is classified good and 6250 bytes over 1000 ms is classified poor.
C10_BitsPerSecond ==
    LET e == qm.emitted
    IN  (Emitted /\ e.hasDelta)
          => /\ e.bitrate % 1000 = 0
             /\ e.bitrate \div 1000 = (8 * e.deltaBytes) \div e.deltaMs
             /\ (e.deltaBytes = 125000 /\ e.deltaMs = 1000 /\ e.packetsLost = 0)
                  => e.quality = "good"
             /\ (e.deltaBytes = 6250 /\ e.deltaMs = 1000 /\ e.packetsLost = 0)
                  => e.quality = "poor"

\* this step a getStats() callback of the monitor ran
StatsCallbackRuns == qm'.inflight < qm.inflight

\* C25: the first sample of a monitor only records the baseline (bytes and
\* timestamp): it contributes no bitrate and is not classified from a bitrate
\* of zero, so it notifies nothing; every later sample emits one notification.
C25_FirstSampleIsBaseline ==
    [][StatsCallbackRuns
         => IF qm.lastTimestamp = 0
            THEN qm'.emitted = qm.emitted
            ELSE qm'.emitted.quality # "none"]_vars

\* C26: after stopMonitoring has returned (no timer id is stored),
\* onQualityChange is not invoked again by that monitor, not even for a stats
\* request issued before the stop.
C26_NoNotificationAfterStop ==
    [][~qm.statsInterval
         => ~StatsCallbackRuns /\ qm'.emitted = qm.emitted]_vars

----------------------------------------------------------------------------
(* optimizeIceCandidates (utils/signalingOptimizer) *)

MaxCands == 3

\* The candidate attribute of an RTCIceCandidate is one line of text,
\* "candidate:<foundation> <component> <transport> <priority> <address> <port>
\* typ <type> ...": kept here as its address and its type, the two fields
\* whose text differs between the entries below.
Address == {"192.0.2.1", "turnhost.example"}
CandTypes == {"host", "srflx", "relay", "prflx"}

\* entries as passed in: candidate line, sdpMid, and a field the comparison
\* of the filter does not read (sdpMLineIndex)
IceEntries ==
    {[candidate |-> [address |-> "192.0.2.1", typ |-> t], sdpMid |-> "0",
      sdpMLineIndex |-> 0] : t \in CandTypes}
    \cup {[candidate |-> [address |-> "turnhost.example", typ |-> "relay"],
           sdpMid |-> "0", sdpMLineIndex |-> 0],
          [candidate |-> [address |-> "192.0.2.1", typ |-> "host"],
           sdpMid |-> "1", sdpMLineIndex |-> 0],
          [candidate |-> [address |-> "192.0.2.1", typ |-> "host"],
           sdpMid |-> "0", sdpMLineIndex |-> 1],
          [candidate |-> [address |-> "192.0.2.1", typ |-> "srflx"],
           sdpMid |-> "0", sdpMLineIndex |-> 1]}

RECURSIVE SeqsUpTo(_, _)
SeqsUpTo(S, n) ==
    IF n = 0 THEN {<< >>}
    ELSE LET shorter == SeqsUpTo(S, n - 1)
         IN  shorter \cup {Append(q, x) : q \in {r \in shorter : Len(r) = n - 1},
                                           x \in S}

IceInputs == SeqsUpTo(IceEntries, MaxCands)

\* String.prototype.includes on a candidate line: the word occurs as the type
\* or inside the text of the address
includes(line, word) ==
    \/ line.typ = word
    \/ line.address = "turnhost.example" /\ word = "host"

getPriority(line) ==
    IF includes(line, "host") THEN 3
    ELSE IF includes(line, "srflx") THEN 2
    ELSE IF includes(line, "relay") THEN 1
    ELSE 0

\* c.candidate === candidate.candidate && c.sdpMid === candidate.sdpMid
SameCandidate(c, candidate) ==
    c.candidate = candidate.candidate /\ c.sdpMid = candidate.sdpMid

\* (the index of the last match, for comparison with findIndex)
findLastIndex(self, candidate) ==
    CHOOSE i \in 1..Len(self) :
        /\ SameCandidate(self[i], candidate)
        /\ \A j \in (i + 1)..Len(self) : ~SameCandidate(self[j], candidate)

\* self.findIndex(...): the index of the first match
findIndex(self, candidate) ==
    CHOOSE i \in 1..Len(self) :
        /\ SameCandidate(self[i], candidate)
        /\ \A j \in 1..(i - 1) : ~SameCandidate(self[j], candidate)

\* candidates.filter((candidate, index, self) => index === self.findIndex(...))
RECURSIVE filterUnique(_, _)
filterUnique(self, index) ==
    IF index > Len(self) THEN << >>
    ELSE IF index = findIndex(self, self[index])
         THEN <<self[index]>> \o filterUnique(self, index + 1)
         ELSE filterUnique(self, index + 1)

uniqueCandidates(candidates) == filterUnique(candidates, 1)

\* the comparator of the sort: getPriority(b.candidate) - getPriority(a.candidate)
compare(a, b) == getPriority(b.candidate) - getPriority(a.candidate)

\* x takes its place in front of the first entry the comparator puts after it
insertSorted(sorted, x) ==
    LET after == {i \in 1..Len(sorted) : compare(sorted[i], x) > 0}
        k == IF after = {} THEN Len(sorted) + 1
             ELSE CHOOSE i \in after : \A j \in after : i <= j
    IN  SubSeq(sorted, 1, k - 1) \o <<x>> \o SubSeq(sorted, k, Len(sorted))

\* Array.prototype.sort with a comparator: a stable sort (ECMAScript 2019)
RECURSIVE sort(_)
sort(array) ==
    IF array = << >> THEN << >>
    ELSE insertSorted(sort(SubSeq(array, 1, Len(array) - 1)), array[Len(array)])

optimizeIceCandidates(candidates) == sort(uniqueCandidates(candidates))

\* the caller's argument is any list of entries
InitIce ==
    /\ InitServices
    /\ ice \in {[candidates |-> c, result |-> << >>, called |-> FALSE] :
                   c \in IceInputs}

OptimizeIceCandidatesCall ==
    /\ ~ice.called
    /\ ice' = [ice EXCEPT !.result = optimizeIceCandidates(ice.candidates),
                          !.called = TRUE]
    /\ UNCHANGED <<appVars, rc, qm, qualityMonitors, stateManagers, monitors,
                   managers, call, media>>

NextIce == OptimizeIceCandidatesCall

SpecIce == InitIce /\ [][NextIce]_vars

Key(e) == <<e.candidate, e.sdpMid>>

\* C11: the output of optimizeIceCandidates contains no two entries with equal
\* (candidate string, sdpMid), contains exactly one entry for each distinct
\* (candidate string, sdpMid) pair of the input, and that entry is the first
\* occurrence of the pair in the input.
C11_DedupKeepsFirst ==
    ice.called =>
        LET in  == ice.candidates
            out == ice.result
        IN  /\ \A i, j \in 1..Len(out) : Key(out[i]) = Key(out[j]) => i = j
            /\ {Key(out[i]) : i \in 1..Len(out)} = {Key(in[i]) : i \in 1..Len(in)}
            /\ \A i \in 1..Len(out) :
                 \E k \in 1..Len(in) :
                     /\ out[i] = in[k]
                     /\ \A j \in 1..(k - 1) : Key(in[j]) # Key(in[k])

\* C11 witness: an input in which a pair occurs twice, in entries that differ
\* in another field, has been optimized
C11_Witness ==
    /\ ice.called
    /\ \E i, j \in 1..Len(ice.candidates) :
         /\ i < j
         /\ Key(ice.candidates[i]) = Key(ice.candidates[j])
         /\ ice.candidates[i] # ice.candidates[j]
    /\ Len(ice.result) = 2

\* the priority of the candidate's type
TypePriority(e) ==
    CASE e.candidate.typ = "host"  -> 3
      [] e.candidate.typ = "srflx" -> 2
      [] e.candidate.typ = "relay" -> 1
      [] OTHER                     -> 0

\* the position in the input of the entry an output entry was taken from
Origin(in, x) == CHOOSE k \in 1..Len(in) :
                     in[k] = x /\ \A j \in 1..(k - 1) : Key(in[j]) # Key(x)

\* C12: the output of optimizeIceCandidates is ordered by non-increasing type
\* priority (host 3, srflx 2, relay 1, any other type 0), and two output
\* entries of equal priority are in the same relative order as in the input.
C12_SortedByTypeStable ==
    ice.called =>
        LET in  == ice.candidates
            out == ice.result
        IN  \A i, j \in 1..Len(out) :
                i < j => /\ TypePriority(out[i]) >= TypePriority(out[j])
                         /\ TypePriority(out[i]) = TypePriority(out[j])
                              => Origin(in, out[i]) < Origin(in, out[j])

----------------------------------------------------------------------------
(* WebRTCService as called directly: each public method, with any peer id, *)
(* in any order.                                                           *)

MaxCalls == 4

\* the tracks of the local MediaStream
LocalStream == <<"audio", "video">>

\* (an addTrack that accepts a track the handle already sends, for comparison
\*  with addTracks)
addTracksAgain(tracks, stream) == tracks \o stream

\* stream.getTracks().forEach(track => peerConnection.addTrack(track, stream)):
\* addTrack raises InvalidAccessError for a track the handle already sends,
\* which ends the forEach
RECURSIVE addTracks(_, _)
addTracks(tracks, stream) ==
    IF stream = << >> \/ Head(stream) \in Range(tracks) THEN tracks
    ELSE addTracks(Append(tracks, Head(stream)), Tail(stream))

addLocalStream(R, p, stream) ==
    IF MapHas(R.pcs, p)
    THEN [R EXCEPT !.hs[MapGet(R.pcs, p)].tracks = addTracks(@, stream)]
    ELSE R

addLocalStreamError(R, p, stream) ==
    IF MapHas(R.pcs, p)
       /\ Range(stream) \cap Range(R.hs[MapGet(R.pcs, p)].tracks) # {}
    THEN "InvalidAccessError" ELSE "none"

CanCall == call.n < MaxCalls

Called(op, p, err) ==
    [op |-> op, peer |-> p, error |-> err, logged |-> "none", n |-> call.n + 1]

\* (a lookup failure that is not reported, for comparison with NoEntryError)
NoEntryErrorSilent(p) == "none"

\* throw new Error(`No peer connection found for peer ${peerId}`)
NoEntryError(p) == IF MapHas(peerConnections, p) THEN "none" ELSE NoPeerError

signalingVars == <<callbacks, socket, left, pendingCandidates, sent, last, nrecv>>

ApiCreatePeerConnection(p) ==
    /\ CanCall
    /\ SetRegistry(createPeerConnection(Registry, p))
    /\ call' = Called("createPeerConnection", p, "none")
    /\ UNCHANGED <<signalingVars, rc, qm, managers, ice, media>>

ApiAddLocalStream(p) ==
    /\ CanCall
    /\ SetRegistry(addLocalStream(Registry, p, LocalStream))
    /\ call' = Called("addLocalStream", p,
                      addLocalStreamError(Registry, p, LocalStream))
    /\ UNCHANGED <<signalingVars, rc, qm, managers, ice, media>>

\* createOffer up to its first await: peerConnection.createOffer(options)
ApiCreateOffer(p) ==
    /\ CanCall
    /\ call' = Called("createOffer", p, NoEntryError(p))
    /\ IF MapHas(peerConnections, p)
       THEN LET h == MapGet(peerConnections, p)
            IN  handles' = Issue([handles EXCEPT ![h].attempts = @ + 1,
                                                 ![h].offerResult = "pending"],
                                 h, Task("createOffer", 1, EmptyOptions,
                                         NoDesc, NoCand))
       ELSE UNCHANGED handles
    /\ UNCHANGED <<peerConnections, qualityMonitors, stateManagers, monitors>>
    /\ UNCHANGED <<signalingVars, rc, qm, managers, ice, media>>

\* createAnswer up to its first await: peerConnection.createAnswer(options)
ApiCreateAnswer(p) ==
    /\ CanCall
    /\ call' = Called("createAnswer", p, NoEntryError(p))
    /\ IF MapHas(peerConnections, p)
       THEN handles' = Issue(handles, MapGet(peerConnections, p),
                             Task("createAnswer", 0, EmptyOptions, NoDesc, NoCand))
       ELSE UNCHANGED handles
    /\ UNCHANGED <<peerConnections, qualityMonitors, stateManagers, monitors>>
    /\ UNCHANGED <<signalingVars, rc, qm, managers, ice, media>>

RemoteDesc(kind) == [kind |-> kind, attempt |-> 0, opts |-> EmptyOptions]

\* setRemoteDescription up to its await
ApiSetRemoteDescription(p, kind) ==
    /\ CanCall
    /\ call' = Called("setRemoteDescription", p, NoEntryError(p))
    /\ IF MapHas(peerConnections, p)
       THEN handles' = Issue(handles, MapGet(peerConnections, p),
                             Task("setRemoteDescription", 0, EmptyOptions,
                                  RemoteDesc(kind), NoCand))
       ELSE UNCHANGED handles
    /\ UNCHANGED <<peerConnections, qualityMonitors, stateManagers, monitors>>
    /\ UNCHANGED <<signalingVars, rc, qm, managers, ice, media>>

\* addIceCandidate up to its await
ApiAddIceCandidate(p, c) ==
    /\ CanCall
    /\ call' = Called("addIceCandidate", p, NoEntryError(p))
    /\ IF MapHas(peerConnections, p)
       THEN handles' = Issue(handles, MapGet(peerConnections, p),
                             Task("addIceCandidate", 0, EmptyOptions, NoDesc, c))
       ELSE UNCHANGED handles
    /\ UNCHANGED <<peerConnections, qualityMonitors, stateManagers, monitors>>
    /\ UNCHANGED <<signalingVars, rc, qm, managers, ice, media>>

ApiCloseConnection(p) ==
    /\ CanCall
    /\ SetRegistry(closeConnection(Registry, p))
    /\ call' = Called("closeConnection", p, "none")
    /\ UNCHANGED <<signalingVars, rc, qm, managers, ice, media>>

ApiCloseAllConnections ==
    /\ CanCall
    /\ SetRegistry(closeAllConnections(Registry))
    /\ call' = Called("closeAllConnections", "none", "none")
    /\ UNCHANGED <<signalingVars, rc, qm, managers, ice, media>>

ApiStartQualityMonitoring(p) ==
    /\ CanCall
    /\ SetRegistry(startQualityMonitoring(Registry, p))
    /\ call' = Called("startQualityMonitoring", p, "none")
    /\ UNCHANGED <<signalingVars, rc, qm, managers, ice, media>>

ApiStopQualityMonitoring(p) ==
    /\ CanCall
    /\ SetRegistry(stopQualityMonitoring(Registry, p))
    /\ call' = Called("stopQualityMonitoring", p, "none")
    /\ UNCHANGED <<signalingVars, rc, qm, managers, ice, media>>

\* startStateMonitoring: a new manager, startMonitoring, stateManagers.set
ApiStartStateMonitoring(p) ==
    /\ CanCall
    /\ call' = Called("startStateMonitoring", p, "none")
    /\ IF MapHas(peerConnections, p)
       THEN /\ managers' = Append(managers,
                                  NewManager(p, MapGet(peerConnections, p)))
            /\ stateManagers' = MapSet(stateManagers, p, Len(managers) + 1)
       ELSE UNCHANGED <<managers, stateManagers>>
    /\ UNCHANGED <<peerConnections, handles, qualityMonitors, monitors>>
    /\ UNCHANGED <<signalingVars, rc, qm, ice, media>>

ApiStopStateMonitoring(p) ==
    /\ CanCall
    /\ SetRegistry(stopStateMonitoring(Registry, p))
    /\ call' = Called("stopStateMonitoring", p, "none")
    /\ UNCHANGED <<signalingVars, rc, qm, managers, ice, media>>

\* peerConnection.createAnswer settles: resolved in have-remote-offer, and
\* WebRTCService.createAnswer issues setLocalDescription(answer); rejected
\* (InvalidStateError) in every other signaling state
CreateAnswerSettles(h) ==
    /\ Pending(h, "createAnswer")
    /\ LET hs == Settled(handles, h)
       IN  IF handles[h].signalingState = "have-remote-offer"
           THEN handles' = Issue(hs, h, Task("setLocalDescription", 0,
                                             EmptyOptions, RemoteDesc("answer"),
                                             NoCand))
           ELSE handles' = hs
    /\ UNCHANGED <<peerConnections, qualityMonitors, stateManagers, monitors>>
    /\ UNCHANGED <<signalingVars, rc, qm, managers, call, ice, media>>

\* setLocalDescription settles for a direct caller of createOffer /
\* createAnswer: the description is returned to that caller
ApiSetLocalDescriptionSettles(h) ==
    /\ Pending(h, "setLocalDescription")
    /\ LET t == Head(handles[h].ops)
           x == handles[h]
           hs == Settled(handles, h)
       IN  IF t.desc.kind = "offer"
              /\ x.signalingState \in {"stable", "have-local-offer"}
           THEN handles' = [hs EXCEPT ![h].localDescription = t.desc,
                                      ![h].signalingState = "have-local-offer",
                                      ![h].offerResult = "returned",
                                      ![h].returned = t.desc]
           ELSE IF t.desc.kind = "answer"
                   /\ x.signalingState = "have-remote-offer"
           THEN handles' = [hs EXCEPT ![h].localDescription = t.desc,
                                      ![h].signalingState = "stable"]
           ELSE handles' = hs
    /\ UNCHANGED <<peerConnections, qualityMonitors, stateManagers, monitors>>
    /\ UNCHANGED <<signalingVars, rc, qm, managers, call, ice, media>>

NextService ==
    \/ \E p \in Peers : ApiCreatePeerConnection(p)
    \/ \E p \in Peers : ApiAddLocalStream(p)
    \/ \E p \in Peers : ApiCreateOffer(p)
    \/ \E p \in Peers : ApiCreateAnswer(p)
    \/ \E p \in Peers, kind \in {"offer", "answer"} : ApiSetRemoteDescription(p, kind)
    \/ \E p \in Peers : ApiAddIceCandidate(p, "c1")
    \/ \E p \in Peers : ApiCloseConnection(p)
    \/ ApiCloseAllConnections
    \/ \E p \in Peers : ApiStartQualityMonitoring(p)
    \/ \E p \in Peers : ApiStopQualityMonitoring(p)
    \/ \E p \in Peers : ApiStartStateMonitoring(p)
    \/ \E p \in Peers : ApiStopStateMonitoring(p)
    \/ \E h \in 1..Len(handles), ok \in BOOLEAN : CreateOfferSettles(h, ok)
    \/ \E h \in 1..Len(handles) : CreateAnswerSettles(h)
    \/ \E h \in 1..Len(handles) : ApiSetLocalDescriptionSettles(h)
    \/ \E h \in 1..Len(handles) : SetRemoteDescriptionSettles(h)
    \/ \E h \in 1..Len(handles) : AddIceCandidateSettles(h)

SpecService == Init /\ [][NextService]_vars

\* a call of method op for peer p is made in this step
Calls(op, p) == call'.n # call.n /\ call'.op = op /\ call'.peer = p

ClosedHandlesOf(p) ==
    {h \in 1..Len(handles) : handles[h].peer = p /\ handles[h].closed}

\* the state of a handle on which nothing has been negotiated or attached
Fresh(x) ==
    /\ ~x.closed
    /\ x.signalingState = "stable"
    /\ x.localDescription = NoDesc
    /\ x.remoteDescription = NoDesc
    /\ x.tracks = << >>
    /\ x.candidates = << >>
    /\ x.ops = << >>

\* C14: closeConnection(p) followed by createPeerConnection(p) yields a fresh
\* entry: a new handle distinct from the closed one (which stays as it was),
\* negotiation state new, no local or remote description, and no tracks
\* carried over from the closed entry.
C14_CloseThenCreateIsFresh ==
    [][\A p \in Peers :
         (/\ Calls("createPeerConnection", p)
          /\ ~MapHas(peerConnections, p)
          /\ ClosedHandlesOf(p) # {})
           => LET h == MapGet(peerConnections', p)
              IN  /\ h = Len(handles) + 1
                  /\ Len(handles') = h
                  /\ Fresh(handles'[h])
                  /\ \A g \in 1..Len(handles) : handles'[g] = handles[g]]_vars

\* C14 witness: p's entry was closed with tracks attached to its handle, and
\* p has been given an entry again
C14_Witness ==
    /\ call.op = "createPeerConnection"
    /\ MapHas(peerConnections, call.peer)
    /\ \E h \in 1..Len(handles) :
         /\ handles[h].peer = call.peer
         /\ handles[h].closed
         /\ handles[h].tracks = LocalStream
         /\ h < MapGet(peerConnections, call.peer)
    /\ Fresh(handles[MapGet(peerConnections, call.peer)])

\* C15: closeConnection(p) removes p's entry from peerConnections, removes
\* p's quality monitor, stopping its timer, and p's state manager, and closes
\* the handle; closeConnection(p) for a p without an entry (closed before, or
\* never created) changes nothing; neither raises an error.
C15_CloseConnection ==
    [][\A p \in Peers :
         Calls("closeConnection", p)
           => /\ call'.error = "none"
              /\ IF MapHas(peerConnections, p)
                 THEN /\ ~MapHas(peerConnections', p)
                      /\ ~MapHas(qualityMonitors', p)
                      /\ ~MapHas(stateManagers', p)
                      /\ handles'[MapGet(peerConnections, p)].closed
                      /\ MapHas(qualityMonitors, p)
                           => LET m == monitors'[MapGet(qualityMonitors, p)]
                              IN  ~m.statsInterval /\ m.timers = 0
                 ELSE UNCHANGED registryVars]_vars

\* C15 witness: an entry that had a quality monitor and a state manager was
\* closed
C15_Witness ==
    /\ call.op = "closeConnection"
    /\ call.n = 4
    /\ ~MapHas(peerConnections, call.peer)
    /\ ClosedHandlesOf(call.peer) # {}
    /\ \E m \in 1..Len(monitors) :
         monitors[m].peer = call.peer /\ monitors[m].timers = 0
    /\ \E m \in 1..Len(managers) : managers[m].peer = call.peer
    /\ ~MapHas(qualityMonitors, call.peer)
    /\ ~MapHas(stateManagers, call.peer)

\* C16: after closeAllConnections returns, whatever the number of registered
\* entries, peerConnections is empty, every handle that was registered is
\* closed, and qualityMonitors and stateManagers hold no entry for any of
\* those peers.
C16_CloseAllConnections ==
    [][(call'.n # call.n /\ call'.op = "closeAllConnections")
         => /\ peerConnections' = {}
            /\ \A e \in peerConnections :
                 /\ handles'[e[2]].closed
                 /\ ~MapHas(qualityMonitors', e[1])
                 /\ ~MapHas(stateManagers', e[1])]_vars

\* C16 witness: closeAllConnections ran with two entries registered, one of
\* them with a quality monitor
C16_Witness ==
    /\ call.op = "closeAllConnections"
    /\ call.n = 4
    /\ Len(handles) = 2
    /\ peerConnections = {}
    /\ \A p \in Peers : ClosedHandlesOf(p) # {}
    /\ \E m \in 1..Len(monitors) : monitors[m].timers = 0
    /\ qualityMonitors = {}

\* C17: createOffer(p), createAnswer(p) and setRemoteDescription(p, d) for a
\* p with no entry in the registry fail with an error raised to the caller,
\* issue no negotiation primitive on any handle, and leave peerConnections,
\* qualityMonitors and stateManagers unchanged.
C17_NoSuchPeer ==
    [][\A p \in Peers :
         \A op \in {"createOffer", "createAnswer", "setRemoteDescription"} :
             (Calls(op, p) /\ ~MapHas(peerConnections, p))
               => /\ call'.error = NoPeerError
                  /\ UNCHANGED registryVars]_vars

\* C17 witness: such a call failed while another peer had an entry
C17_Witness ==
    /\ call.op \in {"createOffer", "createAnswer", "setRemoteDescription"}
    /\ call.error = NoPeerError
    /\ ~MapHas(peerConnections, call.peer)
    /\ peerConnections # {}

\* C33: at most one sampling timer is active per peer, and every active
\* sampling timer belongs to the monitor registered in qualityMonitors for
\* that peer; so after stopQualityMonitoring(p) or closeConnection(p), which
\* leave p without a registered monitor, no timer samples p.
C33_OneRegisteredTimerPerPeer ==
    \A i \in 1..Len(monitors) :
        monitors[i].timers > 0
          => /\ monitors[i].timers = 1
             /\ MapHas(qualityMonitors, monitors[i].peer)
             /\ MapGet(qualityMonitors, monitors[i].peer) = i

----------------------------------------------------------------------------
(* SignalingService as called directly, over the life of its socket *)

\* sendSignalingMessage when the socket is missing or not OPEN: console.error
sendSignalingMessageLogged ==
    IF socket = "open" THEN "none" ELSE "WebSocket is not open"

\* sendSignalingMessage has no throw statement and returns undefined
sendSignalingMessageThrown == "none"

SendOps == {"sendOffer", "sendAnswer", "sendIceCandidate"}

EnvelopeType(op) ==
    CASE op = "sendOffer"  -> "offer"
      [] op = "sendAnswer" -> "answer"
      [] OTHER             -> "ice_candidate"

\* initializeWebSocket: new WebSocket(wsUrl)
SigInitializeWebSocket ==
    /\ CanCall
    /\ socket \in {"null", "closed"}
    /\ socket' = "connecting"
    /\ call' = Called("initializeWebSocket", "none", "none")
    /\ UNCHANGED <<callbacks, left, pendingCandidates, sent, last, nrecv>>
    /\ UNCHANGED <<registryVars, rc, qm, ice, media>>

\* the connection fails or the server closes it: readyState becomes CLOSED
SigSocketCloses ==
    /\ socket \in {"connecting", "open"}
    /\ socket' = "closed"
    /\ UNCHANGED <<callbacks, left, pendingCandidates, sent, last, nrecv>>
    /\ UNCHANGED <<registryVars, rc, qm, call, ice, media>>

\* close(): socket.close(); this.socket = null
SigClose ==
    /\ CanCall
    /\ socket' = "null"
    /\ call' = Called("close", "none", "none")
    /\ UNCHANGED <<callbacks, left, pendingCandidates, sent, last, nrecv>>
    /\ UNCHANGED <<registryVars, rc, qm, ice, media>>

\* sendOffer / sendAnswer / sendIceCandidate -> sendSignalingMessage
SigSend(op, p) ==
    /\ CanCall
    /\ sent' = sendSignalingMessage(sent, [type |-> EnvelopeType(op), to |-> p])
    /\ call' = [Called(op, p, sendSignalingMessageThrown)
                  EXCEPT !.logged = sendSignalingMessageLogged]
    /\ UNCHANGED <<callbacks, socket, left, pendingCandidates, last, nrecv>>
    /\ UNCHANGED <<registryVars, rc, qm, ice, media>>

NextSignaling ==
    \/ SigInitializeWebSocket
    \/ SocketOpen
    \/ SigSocketCloses
    \/ SigClose
    \/ \E op \in SendOps, p \in Peers : SigSend(op, p)

SpecSignaling == Init /\ [][NextSignaling]_vars

\* C18: sendSignalingMessage invoked while the channel is not open (socket
\* absent, still connecting, or closed) fails with an error raised to its
\* caller; the envelope is neither transmitted nor kept for later
\* transmission.
C18_SendWhileNotOpenFails ==
    [][\A op \in SendOps :
         (call'.n # call.n /\ call'.op = op /\ socket # "open")
           => /\ call'.error # "none"
              /\ sent' = sent
              /\ pendingCandidates' = pendingCandidates]_vars


----------------------------------------------------------------------------
(* OptimizedMeeting: the media controls (toggleMicrophone, toggleCamera,    *)
(* toggleScreenShare), with the participants joining and leaving.  The      *)
(* toggle handlers are created at every render, so a click sees the current *)
(* state; what runs after an await, and the onended handler, see the state  *)
(* of the render in which the click happened.                               *)

MaxClicks == 2

\* participant_joined / participant_left messages received while the media
\* controls are exercised
MaxRoster == 2

DeviceOps == {"audio", "video"}

\* the MediaStream the n-th acquisition resolves with: one new audio track
\* (getUserMedia({audio})), one new video track (getUserMedia({video})), or
\* the new tracks of getDisplayMedia({video, audio})
NewStream(op, n) ==
    [kind |-> op,
     tracks |-> IF op = "screen"
                THEN <<"screen-video" \o ToString(n), "screen-audio" \o ToString(n)>>
                ELSE <<op \o ToString(n)>>]

\* participants.forEach(participant =>
\*   webRTCService.addLocalStream(participant.id, stream)):
\* an addTrack that raises ends the forEach
RECURSIVE forEachParticipant(_, _, _)
forEachParticipant(R, parts, stream) ==
    IF parts = << >> THEN R
    ELSE LET R1 == addLocalStream(R, Head(parts), stream.tracks)
         IN  IF addLocalStreamError(R, Head(parts), stream.tracks) # "none"
             THEN R1
             ELSE forEachParticipant(R1, Tail(parts), stream)

\* the error that ends that forEach, if any
RECURSIVE forEachParticipantError(_, _, _)
forEachParticipantError(R, parts, stream) ==
    IF parts = << >> THEN "none"
    ELSE IF addLocalStreamError(R, Head(parts), stream.tracks) # "none"
         THEN addLocalStreamError(R, Head(parts), stream.tracks)
         ELSE forEachParticipantError(
                  addLocalStream(R, Head(parts), stream.tracks),
                  Tail(parts), stream)

\* the state a handler created now closes over
Closure ==
    [participants |-> media.participants, localStream |-> media.localStream,
     cameraEnabled |-> media.cameraEnabled]

\* a control can be clicked while the component is mounted
CanClick == callbacks # {} /\ ~left /\ media.clicks < MaxClicks

\* an awaited getUserMedia / getDisplayMedia call and the handler awaiting it
Acquisition(op) == [op |-> op, n |-> media.clicks + 1, closure |-> Closure]

\* the alert of the catch block of each toggle
AlertOf(op) ==
    CASE op = "audio" -> "Failed to access microphone. Please check your permissions."
      [] op = "video" -> "Failed to access camera. Please check your permissions."
      [] OTHER        -> "Failed to share screen. Please check your permissions."

\* (a catch block that tears the connections down, for comparison with
\*  afterAcquisition)
afterAcquisitionTearDown(R, a, ok, stream) ==
    IF ok THEN forEachParticipant(R, a.closure.participants, stream)
    ELSE closeAllConnections(R)

\* what a toggle does to the registry after its await: resolved, the rest of
\* the try block attaches the stream for every participant; rejected, the
\* catch block logs and alerts
afterAcquisition(R, a, ok, stream) ==
    IF ok THEN forEachParticipant(R, a.closure.participants, stream)
    ELSE R

\* `if (cameraEnabled && localStream)` then the forEach of addLocalStream with
\* localStream, as the stop branch and the onended handler do it
restoreCamera(R, c) ==
    IF c.cameraEnabled /\ c.localStream # NoStream
    THEN forEachParticipant(R, c.participants, c.localStream)
    ELSE R

restoreCameraError(R, c) ==
    IF c.cameraEnabled /\ c.localStream # NoStream
    THEN forEachParticipantError(R, c.participants, c.localStream)
    ELSE "none"

\* toggleMicrophone (op = audio) / toggleCamera (op = video) up to the await:
\* without a localStream the device is requested; with one, the track of that
\* kind, if the stream has one, is switched
ToggleDevice(op) ==
    /\ CanClick
    /\ media' =
         IF media.localStream = NoStream
         THEN [media EXCEPT !.clicks = @ + 1,
                            !.acquiring = Append(@, Acquisition(op))]
         ELSE [media EXCEPT
                 !.clicks = @ + 1,
                 !.micEnabled = IF op = "audio" /\ media.localStream.kind = op
                                THEN ~@ ELSE @,
                 !.cameraEnabled = IF op = "video" /\ media.localStream.kind = op
                                   THEN ~@ ELSE @]
    /\ UNCHANGED <<appVars, rc, qm, aux>>

\* toggleScreenShare up to the await: not sharing, the display is requested;
\* sharing, the tracks of the screen stream are stopped and the camera stream
\* is attached again, an error of which lands in the catch block
ToggleScreenShare ==
    /\ CanClick
    /\ IF ~media.screenEnabled
       THEN /\ media' = [media EXCEPT
                           !.clicks = @ + 1,
                           !.acquiring = Append(@, Acquisition("screen"))]
            /\ UNCHANGED <<peerConnections, handles, qualityMonitors,
                           stateManagers, monitors>>
       ELSE /\ SetRegistry(restoreCamera(Registry, Closure))
            /\ media' = [media EXCEPT
                           !.clicks = @ + 1,
                           !.screenEnabled = FALSE,
                           !.screenStream = NoStream,
                           !.screens = SelectSeq(@, LAMBDA s :
                                          s.stream # media.screenStream),
                           !.alert = IF restoreCameraError(Registry, Closure) # "none"
                                     THEN AlertOf("screen") ELSE @]
    /\ UNCHANGED <<signalingVars, rc, qm, managers, call, ice>>

\* an awaited acquisition settles and its toggle continues: resolved (ok) with
\* a new stream, or rejected
AcquisitionSettles(i, ok) ==
    /\ i \in 1..Len(media.acquiring)
    /\ LET a == media.acquiring[i]
           stream == NewStream(a.op, a.n)
           rest == SubSeq(media.acquiring, 1, i - 1)
                     \o SubSeq(media.acquiring, i + 1, Len(media.acquiring))
       IN  /\ SetRegistry(afterAcquisition(Registry, a, ok, stream))
           /\ media' =
                IF ~ok
                THEN [media EXCEPT !.acquiring = rest, !.outcome = "rejected",
                                   !.alert = AlertOf(a.op)]
                ELSE IF a.op = "screen"
                THEN [media EXCEPT
                        !.acquiring = rest, !.outcome = "acquired",
                        !.screenStream = stream, !.screenEnabled = TRUE,
                        !.screens = Append(@, [stream |-> stream,
                                               closure |-> a.closure])]
                ELSE [media EXCEPT
                        !.acquiring = rest, !.outcome = "acquired",
                        !.localStream = stream,
                        !.micEnabled = IF a.op = "audio" THEN TRUE ELSE @,
                        !.cameraEnabled = IF a.op = "video" THEN TRUE ELSE @]
    /\ UNCHANGED <<signalingVars, rc, qm, managers, call, ice>>

\* the video track of a live screen stream ends (sharing stopped from the
\* browser): its onended handler runs with the state it closed over; an error
\* of its addLocalStream calls is caught by nothing
ScreenEnded(i) ==
    /\ i \in 1..Len(media.screens)
    /\ LET c == media.screens[i].closure
       IN  /\ SetRegistry(restoreCamera(Registry, c))
           /\ media' = [media EXCEPT
                          !.screenEnabled = FALSE,
                          !.screenStream = NoStream,
                          !.screens = SubSeq(@, 1, i - 1)
                                        \o SubSeq(@, i + 1, Len(@)),
                          !.uncaught = IF restoreCameraError(Registry, c) # "none"
                                       THEN restoreCameraError(Registry, c)
                                       ELSE @]
    /\ UNCHANGED <<signalingVars, rc, qm, managers, call, ice>>

NextMedia ==
    \/ Mount
    \/ SocketOpen
    \/ \E p \in Peers : nrecv < MaxRoster /\ RecvParticipantJoined(p)
    \/ \E p \in Peers : nrecv < MaxRoster /\ RecvParticipantLeft(p)
    \/ LeaveMeeting
    \/ \E op \in DeviceOps : ToggleDevice(op)
    \/ ToggleScreenShare
    \/ \E i \in 1..Len(media.acquiring), ok \in BOOLEAN : AcquisitionSettles(i, ok)
    \/ \E i \in 1..Len(media.screens) : ScreenEnded(i)

SpecMedia == Init /\ [][NextMedia]_vars

\* this step an awaited media acquisition was rejected
AcquisitionRejected ==
    /\ Len(media'.acquiring) < Len(media.acquiring)
    /\ media'.outcome = "rejected"

\* C22: a failed media-device acquisition in toggleMicrophone, toggleCamera or
\* toggleScreenShare is caught inside the operation (it alerts, and no error
\* escapes) and leaves the registry unchanged: no entry is closed or removed
\* and no track is attached to any handle.
C22_FailedAcquisitionIsCaught ==
    [][AcquisitionRejected
         => /\ UNCHANGED registryVars
            /\ media'.alert # "none"
            /\ media'.uncaught = media.uncaught]_vars

\* C22 witness: an acquisition was rejected while a participant was
\* registered with tracks attached to its handle by an earlier acquisition
C22_Witness ==
    /\ media.outcome = "rejected"
    /\ \E e \in peerConnections : handles[e[2]].tracks # << >>

NoDuplicates(seq) == \A i, j \in 1..Len(seq) : seq[i] = seq[j] => i = j

----------------------------------------------------------------------------
(* Negotiation to completion: participants join and send offers, the        *)
(* channel stays open, nobody leaves and every negotiation primitive        *)
(* succeeds.  The event loop runs the continuation of every promise the     *)
(* platform resolves, so a primitive that stays pending is eventually       *)
(* settled: weak fairness on each handle's settlement steps.                *)

NextLive ==
    \/ Mount
    \/ SocketOpen
    \/ \E p \in Peers : RecvParticipantJoined(p)
    \/ \E from \in Peers, to \in Names : RecvOffer(from, to)
    \/ \E h \in 1..Len(handles) : CreateOfferSettles(h, TRUE)
    \/ \E h \in 1..Len(handles) : SetLocalDescriptionSettles(h)

\* every handle is created by a received message, so there are at most
\* MaxMsgs of them
SettlementIsFair ==
    \A h \in 1..MaxMsgs :
        /\ WF_vars(CreateOfferSettles(h, TRUE))
        /\ WF_vars(SetLocalDescriptionSettles(h))

SpecLive == Init /\ [][NextLive]_vars /\ SettlementIsFair

AnswersSentTo(p) == {i \in 1..Len(sent) : sent[i] = [type |-> "answer", to |-> p]}

OfferReceivedFrom(p) ==
    last.type = "offer" /\ last.from = p /\ IsForMe(last.to)

\* C31: with the channel open, every primitive succeeding and no peer
\* leaving, every participant_joined for p is eventually followed by exactly
\* one offer sent to p (the offer of the handle that join created), and every
\* offer received from p and addressed to this participant is eventually
\* followed by an answer sent to p, never by more than one.
C31_NegotiationCompletes ==
    /\ \A h \in 1..MaxMsgs :
         (h <= Len(handles))
           ~> (h <= Len(handles) /\ handles[h].offerResult = "returned")
    /\ \A p \in Peers :
         [](Cardinality(OffersSentTo(p))
              <= Cardinality({h \in 1..Len(handles) : handles[h].peer = p}))
    /\ \A p \in Peers : OfferReceivedFrom(p) ~> (AnswersSentTo(p) # {})
    /\ \A p \in Peers : [](Cardinality(AnswersSentTo(p)) <= 1)

====
